---- MODULE Spec2Model ----
(***************************************************************************)
(* The snake game of HomePage: the React state of the component, the tick  *)
(* driven by the interval timer, the keydown handler and resetGame.        *)
(*                                                                         *)
(* One action is one callback run to completion followed by the render     *)
(* that refreshes the closures (direction, food, score, status) the next   *)
(* callback reads.  pendingDirection is a ref and is read and written in   *)
(* place.  The two localStorage effects run at mount, one after the other, *)
(* and the save effect runs again after every render that changed          *)
(* bestScore.                                                              *)
(***************************************************************************)
EXTENDS Integers, Sequences, FiniteSets, TLC

BOARD_SIZE == 20
INITIAL_SPEED == 160
MIN_SPEED == 60
SPEED_STEP == 5

\* Bounds of the exploration.
MaxTicks == 10       \* timer callbacks explored in one behaviour
MaxInputs == 4       \* writes to pendingDirection explored in one behaviour
MaxSteps == 10       \* timer callbacks and writes to pendingDirection together
MaxResets == 1       \* resetGame calls explored in one behaviour
MaxRand == 2         \* number of Math.random() outcomes explored per spawnFood
MaxReloads == 1      \* page loads after the first explored in one behaviour

VARIABLES
    snake,             \* Point[], head first
    direction,         \* Point
    food,              \* Point
    speed,             \* interval in ms
    score,
    bestScore,
    status,            \* "ready" | "running" | "over"
    pendingDirection,  \* the ref: <<>> for null, <<d>> for a buffered direction
    stored,            \* localStorage["snake-best-score"]: <<>> absent, <<text>> present
    phase,             \* "load", "save", "render" while mounting, then "mounted"
    queuedBest,        \* the setBestScore of the load effect not rendered yet, <<>> if none
    moved,             \* history: activeDirection of the last tick, <<>> before any
    lastConsumed,      \* history: the last pending direction a tick consumed
    maxOver,           \* history: max of the value persisted at startup and the
                       \* scores held at the game-overs since
    ticks, inputs, resets, reloads   \* exploration counters

game == <<snake, direction, food, speed, score, bestScore, status, pendingDirection>>
store == <<stored, phase, queuedBest>>
hist == <<moved, lastConsumed, maxOver>>
fuel == <<ticks, inputs, resets, reloads>>
vars == <<game, store, hist, fuel>>

Point(px, py) == [x |-> px, y |-> py]

ArrowKeys == {"ArrowUp", "ArrowDown", "ArrowLeft", "ArrowRight"}

DIRECTIONS ==
    [k \in ArrowKeys |->
        CASE k = "ArrowUp" -> Point(0, -1)
          [] k = "ArrowDown" -> Point(0, 1)
          [] k = "ArrowLeft" -> Point(-1, 0)
          [] k = "ArrowRight" -> Point(1, 0)]

\* event.key values: the arrows, the space bar and one key that is neither
Keys == ArrowKeys \cup {" ", "Enter"}

\* mutant: the components subtracted instead of added
isOpposite_minus(current, next) ==
    current.x - next.x = 0 /\ current.y - next.y = 0

isOpposite(current, next) ==
    current.x + next.x = 0 /\ current.y + next.y = 0

Range(s) == {s[i] : i \in 1..Len(s)}

Max(a, b) == IF a >= b THEN a ELSE b

\* The number NaN, written as an integer that no score and no stored text
\* explored here reaches; every operation on numbers below treats it apart.
NaN == 0 - 1000000

\* mutant: setBestScore(score), without Math.max
MathMax_second(a, b) == b

\* Math.max of two numbers
MathMax(a, b) == IF a = NaN \/ b = NaN THEN NaN ELSE Max(a, b)

\* Text is a sequence of one-character strings.
DigitChars == <<"0", "1", "2", "3", "4", "5", "6", "7", "8", "9">>
IsDigit(c) == \E i \in 1..10 : DigitChars[i] = c
DigitValue(c) == (CHOOSE i \in 1..10 : DigitChars[i] = c) - 1

RECURSIVE DecimalText(_)
DecimalText(n) ==
    IF n < 10 THEN <<DigitChars[n + 1]>>
    ELSE DecimalText(n \div 10) \o <<DigitChars[(n % 10) + 1]>>

\* String(n) for NaN and the integers
String(n) ==
    IF n = NaN THEN <<"N", "a", "N">>
    ELSE IF n < 0 THEN <<"-">> \o DecimalText(0 - n)
    ELSE DecimalText(n)

RECURSIVE DecimalValue(_)
DecimalValue(text) ==
    IF text = <<>> THEN 0
    ELSE 10 * DecimalValue(SubSeq(text, 1, Len(text) - 1)) + DigitValue(text[Len(text)])

AllDigits(text) == text # <<>> /\ \A i \in 1..Len(text) : IsDigit(text[i])

\* Number(text) for the texts explored: decimal integers with an optional
\* minus sign, the empty text (0), and texts that are no number (NaN)
Number(text) ==
    IF text = <<>> THEN 0
    ELSE IF AllDigits(text) THEN DecimalValue(text)
    ELSE IF text[1] = "-" /\ AllDigits(Tail(text)) THEN 0 - DecimalValue(Tail(text))
    ELSE NaN

\* the board in the order of the two loops of spawnFood: y outer, x inner
AllCells ==
    [i \in 1..(BOARD_SIZE * BOARD_SIZE) |->
        Point((i - 1) % BOARD_SIZE, (i - 1) \div BOARD_SIZE)]

freeCells(occupied) ==
    SelectSeq(AllCells, LAMBDA cell : cell \notin Range(occupied))

\* mutant: the scan of spawnFood without its test against occupied
spawnFood_ignoresOccupied(occupied, r) == AllCells[r + 1]

\* spawnFood with r = Math.floor(Math.random() * freeCells.length)
spawnFood(occupied, r) ==
    LET free == freeCells(occupied)
    IN  IF Len(free) = 0 THEN Point(0, 0) ELSE free[r + 1]

\* The outcomes of Math.floor(Math.random() * n) that are explored: MaxRand
\* consecutive indices from the middle of the board on, which in the starting
\* layout are the cells of row 10 around the snake.
RandBase == (BOARD_SIZE * BOARD_SIZE) \div 2 + 7
RandomIndex(n) ==
    IF n = 0 THEN {0}
    ELSE {r \in 0..(n - 1) : r >= RandBase /\ r < RandBase + MaxRand} \cup
         (IF n <= RandBase THEN {n - 1} ELSE {})

FoodChoices(occupied) ==
    {spawnFood(occupied, r) :
        r \in RandomIndex(BOARD_SIZE * BOARD_SIZE - Cardinality(Range(occupied)))}

initialSnake == <<Point(10, 10), Point(9, 10), Point(8, 10)>>

\* spawnFood(initialSnake), as the useState initialiser and resetGame call it
initialFood == FoodChoices(initialSnake)

\* the value a page load finds persisted: 0 when the key is absent
persistedValue(item) == IF item = <<>> THEN 0 ELSE Number(item[1])

\* the first render of HomePage, its effects not yet run
InitHomePage ==
    /\ snake = initialSnake
    /\ direction = DIRECTIONS["ArrowRight"]
    /\ food \in initialFood
    /\ speed = INITIAL_SPEED
    /\ score = 0
    /\ bestScore = 0
    /\ status = "ready"
    /\ pendingDirection = <<>>
    /\ phase = "load"
    /\ queuedBest = <<>>
    /\ moved = <<>>
    /\ lastConsumed = <<>>
    /\ ticks = 0
    /\ inputs = 0
    /\ resets = 0
    /\ reloads = 0

\* the first page load of a browser that holds no best score
Init ==
    /\ InitHomePage
    /\ stored = <<>>
    /\ maxOver = 0

\* mutant: resetGame without setScore(0)
resetGame_keepsScore ==
    /\ resets < MaxResets
    /\ snake' = initialSnake
    /\ direction' = DIRECTIONS["ArrowRight"]
    /\ food' \in initialFood
    /\ speed' = INITIAL_SPEED
    /\ status' = "running"
    /\ pendingDirection' = <<>>
    /\ UNCHANGED <<bestScore, score>>
    /\ moved' = <<>>
    /\ lastConsumed' = <<>>
    /\ resets' = resets + 1
    /\ UNCHANGED <<ticks, inputs, reloads>>
    /\ UNCHANGED <<store, maxOver>>

resetGame ==
    /\ resets < MaxResets
    /\ snake' = initialSnake
    /\ direction' = DIRECTIONS["ArrowRight"]
    /\ food' \in initialFood
    /\ speed' = INITIAL_SPEED
    /\ score' = 0
    /\ status' = "running"
    /\ pendingDirection' = <<>>
    /\ UNCHANGED bestScore
    /\ moved' = <<>>
    /\ lastConsumed' = <<>>
    /\ resets' = resets + 1
    /\ UNCHANGED <<ticks, inputs, reloads>>
    /\ UNCHANGED <<store, maxOver>>

\* mutant: direction read without looking at the ref
activeDirection_ignoresPending == direction

\* pendingDirection.current ?? direction
activeDirection == IF pendingDirection = <<>> THEN direction ELSE pendingDirection[1]

nextHead(currentSnake, d) == Point(currentSnake[1].x + d.x, currentSnake[1].y + d.y)

\* mutant: the upper bounds tested with > instead of >=
hitWall_offByOne(p) == p.x < 0 \/ p.x > BOARD_SIZE \/ p.y < 0 \/ p.y > BOARD_SIZE

hitWall(p) == p.x < 0 \/ p.x >= BOARD_SIZE \/ p.y < 0 \/ p.y >= BOARD_SIZE

\* mutant: the tail, which a plain move vacates, is left out of the test
hitSelf_exceptTail(currentSnake, p) ==
    \E i \in 1..(Len(currentSnake) - 1) : currentSnake[i] = p

\* mutant: no self-collision test
hitSelf_never(currentSnake, p) == FALSE

hitSelf(currentSnake, p) == \E i \in 1..Len(currentSnake) : currentSnake[i] = p

hasEaten(p) == p.x = food.x /\ p.y = food.y

\* mutant: the tail is never popped
newSnake_noPop(currentSnake, p, eaten) == <<p>> \o currentSnake

\* [nextHead, ...currentSnake], popped unless the food was eaten
newSnake(currentSnake, p, eaten) ==
    IF eaten THEN <<p>> \o currentSnake
    ELSE <<p>> \o SubSeq(currentSnake, 1, Len(currentSnake) - 1)

\* mutant: the interval shortened by 10 per meal
nextSpeed_step10(prev) == Max(MIN_SPEED, prev - 2 * SPEED_STEP)

\* mutant: no floor on the interval
nextSpeed_noFloor(prev) == prev - SPEED_STEP

nextSpeed(prev) == Max(MIN_SPEED, prev - SPEED_STEP)

\* the save effect after a render: it runs when bestScore changed
savedBest(prev, best) == IF best = prev THEN stored ELSE <<String(best)>>

\* the updater passed to setSnake by tick, with the setters it calls, and the
\* save effect of the render that follows
tick ==
    LET d == activeDirection
        p == nextHead(snake, d)
    IN  /\ pendingDirection' = <<>>
        /\ moved' = <<d>>
        /\ lastConsumed' = IF pendingDirection = <<>> THEN lastConsumed ELSE pendingDirection
        /\ IF hitWall(p) \/ hitSelf(snake, p)
           THEN /\ status' = "over"
                /\ bestScore' = MathMax(bestScore, score)
                /\ stored' = savedBest(bestScore, bestScore')
                /\ maxOver' = IF score > maxOver THEN score ELSE maxOver
                /\ UNCHANGED <<snake, food, score, speed>>
           ELSE /\ snake' = newSnake(snake, p, hasEaten(p))
                /\ IF hasEaten(p)
                   THEN /\ food' \in FoodChoices(snake')
                        /\ score' = score + 1
                        /\ speed' = nextSpeed(speed)
                   ELSE UNCHANGED <<food, score, speed>>
                /\ UNCHANGED <<status, bestScore, stored, maxOver>>
        /\ UNCHANGED <<direction, phase, queuedBest>>

\* mutant: the timer effect without its test of status
TimerFires_anyStatus ==
    /\ ticks < MaxTicks
    /\ ticks + inputs < MaxSteps
    /\ tick
    /\ ticks' = ticks + 1
    /\ UNCHANGED <<inputs, resets, reloads>>

\* the interval set by the timer effect fires: only while status is running
TimerFires ==
    /\ status = "running"
    /\ ticks < MaxTicks
    /\ ticks + inputs < MaxSteps
    /\ tick
    /\ ticks' = ticks + 1
    /\ UNCHANGED <<inputs, resets, reloads>>

\* mutant: the space key without its test of status
KeySpace_anyStatus ==
    /\ phase = "mounted"
    /\ resetGame

\* handleKeyDown, key " " while status is not running
KeySpace ==
    /\ phase = "mounted"
    /\ status # "running"
    /\ resetGame

\* handleKeyDown, event.key an arrow; status and direction are the values of
\* the render the listener was registered in
KeyArrow(key) ==
    LET next == DIRECTIONS[key]
    IN  /\ phase = "mounted"
        /\ status' = IF status = "ready" THEN "running" ELSE status
        /\ IF status # "running"
           THEN UNCHANGED <<pendingDirection, inputs>>
           ELSE IF isOpposite(activeDirection, next)
                THEN UNCHANGED <<pendingDirection, inputs>>
                ELSE /\ inputs < MaxInputs
                     /\ ticks + inputs < MaxSteps
                     /\ pendingDirection' = <<next>>
                     /\ inputs' = inputs + 1
        /\ UNCHANGED <<snake, direction, food, speed, score, bestScore>>
        /\ UNCHANGED <<store, hist, ticks, resets, reloads>>

\* handleKeyDown, any other key (and " " while running): DIRECTIONS[key] is undefined
KeyOther(key) ==
    /\ phase = "mounted"
    /\ key \notin ArrowKeys
    /\ key = " " => status = "running"
    /\ UNCHANGED <<game, store, hist, fuel>>

handleKeyDown ==
    \/ KeySpace
    \/ \E key \in ArrowKeys : KeyArrow(key)
    \/ \E key \in Keys : KeyOther(key)

\* the restart button, rendered only while status is over
ClickRestart ==
    /\ status = "over"
    /\ resetGame

\* the load effect at mount: a truthy stored text is handed to setBestScore
LoadBest ==
    /\ phase = "load"
    /\ queuedBest' = IF stored # <<>> /\ stored[1] # <<>>
                      THEN <<Number(stored[1])>> ELSE <<>>
    /\ phase' = "save"
    /\ UNCHANGED <<game, stored, hist, fuel>>

\* the save effect at mount: it writes the bestScore of the first render
SaveBest ==
    /\ phase = "save"
    /\ stored' = <<String(bestScore)>>
    /\ phase' = IF queuedBest = <<>> THEN "mounted" ELSE "render"
    /\ UNCHANGED <<game, queuedBest, hist, fuel>>

\* the render that applies the setBestScore of the load effect, and its save effect
RenderBest ==
    /\ phase = "render"
    /\ bestScore' = queuedBest[1]
    /\ stored' = savedBest(bestScore, bestScore')
    /\ queuedBest' = <<>>
    /\ phase' = "mounted"
    /\ UNCHANGED <<snake, direction, food, speed, score, status, pendingDirection>>
    /\ UNCHANGED <<hist, fuel>>

\* the page is loaded again: a new HomePage over the same localStorage
\* (explored between games: a reload in mid-game only discards the game)
Reload ==
    /\ phase = "mounted"
    /\ status # "running"
    /\ reloads < MaxReloads
    /\ snake' = initialSnake
    /\ direction' = DIRECTIONS["ArrowRight"]
    /\ food' \in initialFood
    /\ speed' = INITIAL_SPEED
    /\ score' = 0
    /\ bestScore' = 0
    /\ status' = "ready"
    /\ pendingDirection' = <<>>
    /\ phase' = "load"
    /\ queuedBest' = <<>>
    /\ moved' = <<>>
    /\ lastConsumed' = <<>>
    /\ maxOver' = persistedValue(stored)
    /\ reloads' = reloads + 1
    /\ UNCHANGED <<stored, ticks, inputs, resets>>

Next ==
    \/ LoadBest
    \/ SaveBest
    \/ RenderBest
    \/ TimerFires
    \/ handleKeyDown
    \/ ClickRestart
    \/ Reload

Spec == Init /\ [][Next]_vars

(***************************************************************************)
(* A late game: the snake lies on the serpentine path that starts at       *)
(* (19,0), runs row 0 leftwards, row 1 rightwards and so on, and has its   *)
(* head at (18,19); the one free cell (19,19) holds the food.  The game    *)
(* gets there by 396 meals, steering with one or two key presses per tick. *)
(***************************************************************************)
Serpentine(j) ==
    LET row == j \div BOARD_SIZE
        k == j % BOARD_SIZE
    IN  Point(IF row % 2 = 0 THEN BOARD_SIZE - 1 - k ELSE k, row)

lateSnake ==
    [i \in 1..(BOARD_SIZE * BOARD_SIZE - 1) |-> Serpentine(BOARD_SIZE * BOARD_SIZE - 1 - i)]

InitLate ==
    /\ snake = lateSnake
    /\ direction = DIRECTIONS["ArrowRight"]
    /\ food = Serpentine(BOARD_SIZE * BOARD_SIZE - 1)
    /\ score = Len(lateSnake) - Len(initialSnake)
    /\ speed = MIN_SPEED
    /\ bestScore = 0
    /\ status = "running"
    /\ pendingDirection = <<>>
    /\ stored = <<String(0)>>
    /\ phase = "mounted"
    /\ queuedBest = <<>>
    /\ moved = <<DIRECTIONS["ArrowRight"]>>
    /\ lastConsumed = <<DIRECTIONS["ArrowDown"]>>
    /\ maxOver = 0
    /\ ticks = 0
    /\ inputs = 0
    /\ resets = 0
    /\ reloads = 0

SpecLate == (Init \/ InitLate) /\ [][Next]_vars

(***************************************************************************)
(* Page loads over a localStorage that something else has written: the key *)
(* absent, or holding "2", "-1", "abc" or the empty text.                  *)
(***************************************************************************)
StoredSamples ==
    {<<>>, <<<<"2">>>>, <<<<"-", "1">>>>, <<<<"a", "b", "c">>>>, <<<<>>>>}

InitStored ==
    /\ InitHomePage
    /\ stored \in StoredSamples
    /\ maxOver = persistedValue(stored)

SpecStored == InitStored /\ [][Next]_vars

(***************************************************************************)
(* The timer that keeps firing: setInterval calls tick every speed ms for  *)
(* as long as status is running.  The tick counter stops at MaxTicks       *)
(* instead of stopping the timer; the key presses stay bounded, and one    *)
(* game is played: the page is loaded once and the game is not reset.      *)
(***************************************************************************)
\* mutant: the interval is not set again after speed changed
TimerLive_stopsAfterMeal ==
    /\ status = "running"
    /\ speed = INITIAL_SPEED
    /\ tick
    /\ ticks' = IF ticks < MaxTicks THEN ticks + 1 ELSE ticks
    /\ UNCHANGED <<inputs, resets, reloads>>

TimerLive ==
    /\ status = "running"
    /\ tick
    /\ ticks' = IF ticks < MaxTicks THEN ticks + 1 ELSE ticks
    /\ UNCHANGED <<inputs, resets, reloads>>

NextLive ==
    \/ LoadBest
    \/ SaveBest
    \/ TimerLive
    \/ \E key \in ArrowKeys : KeyArrow(key)
    \/ \E key \in Keys : KeyOther(key)

SpecLive == Init /\ [][NextLive]_vars /\ WF_vars(TimerLive)

(***************************************************************************)
(* Properties.  A step is a tick when it counts a tick, a reset when it    *)
(* counts a reset, a page load when it counts a reload.                    *)
(***************************************************************************)
IsTick == ticks' = ticks + 1
IsReset == resets' = resets + 1
IsReload == reloads' = reloads + 1

Cells == BOARD_SIZE * BOARD_SIZE
NoDuplicates(s) == \A i, j \in 1..Len(s) : i # j => s[i] # s[j]
\* the head the coming tick computes, and the claims' own wording of a collision
Ahead == nextHead(snake, activeDirection)
OutsideBoard(p) == p.x < 0 \/ p.x >= 20 \/ p.y < 0 \/ p.y >= 20
Collides == OutsideBoard(Ahead) \/ Ahead \in Range(snake)

\* C1: once a tick has consumed a buffered direction d, every later tick that
\* finds no newly buffered direction also moves the head by d.
C1_PendingPromoted ==
    [][(IsTick /\ pendingDirection = <<>> /\ lastConsumed # <<>>)
          => moved' = lastConsumed]_vars

\* C2: no tick moves the head in the exact opposite of the direction the
\* previous tick moved it.
C2_NoReversal ==
    [][(IsTick /\ moved # <<>>) => ~isOpposite(moved[1], moved'[1])]_vars

\* C3: a direction key accepted while status is ready (one that is not the
\* opposite of the current direction) sets status to running and is stored
\* in the pending-direction buffer.
C3_ReadyInputBuffered ==
    [][\A key \in ArrowKeys :
          (status = "ready" /\ ~isOpposite(activeDirection, DIRECTIONS[key])
              /\ KeyArrow(key))
          => (status' = "running" /\ pendingDirection' = <<DIRECTIONS[key]>>)]_vars

\* C4 as stated: in every reachable state the food is on no snake segment.
C4_FoodNeverOnSnake == food \notin Range(snake)

\* C4 amended: in every reachable state in which the snake does not cover the
\* whole board the food is on no snake segment; when the snake covers all 400
\* cells the food is the cell (0,0).
C4_FoodOffSnake ==
    IF Len(snake) < Cells THEN food \notin Range(snake) ELSE food = Point(0, 0)

C4_Witness ==
    /\ resets = 1 /\ ticks >= 2 /\ Len(snake) = 5 /\ score = 2
    /\ status = "running" /\ food \notin Range(snake)

\* C5: in every reachable state the snake has at least 3 segments and no two
\* segments have the same coordinate.
C5_SnakeShape == Len(snake) >= 3 /\ NoDuplicates(snake)

C5_Witness == Len(snake) >= 4 /\ snake[1].y # 10 /\ status = "over"

\* C6: a tick whose next head is outside the board or on a snake segment sets
\* status to over and best score to max(best score, score), and leaves snake,
\* food, score and speed as they were.
C6_CollisionTick ==
    [][(IsTick /\ Collides)
          => /\ status' = "over"
             /\ bestScore' = (IF bestScore >= score THEN bestScore ELSE score)
             /\ snake' = snake /\ food' = food /\ score' = score /\ speed' = speed]_vars

C6_Witness ==
    /\ status = "over" /\ moved # <<>>
    /\ OutsideBoard(nextHead(snake, moved[1]))
    /\ bestScore >= 1

\* C7: a tick that neither collides nor reaches the food puts the next head in
\* front of all segments but the last, and leaves food, score, speed and
\* status unchanged.
C7_PlainMove ==
    [][(IsTick /\ ~Collides /\ Ahead # food)
          => /\ snake' = <<Ahead>> \o SubSeq(snake, 1, Len(snake) - 1)
             /\ food' = food /\ score' = score /\ speed' = speed
             /\ status' = status]_vars

C7_Witness ==
    /\ snake = <<Point(11, 10), Point(10, 10), Point(9, 10)>>
    /\ ticks = 1 /\ score = 0 /\ food # Point(11, 10)

\* C8 as stated: a tick that does not collide and reaches the food puts the
\* next head in front of all segments, adds 1 to score, sets speed to
\* max(60, speed - 5) and picks a food cell that is none of the grown snake's
\* segments.
C8_EatingTickFoodOff ==
    [][(IsTick /\ ~Collides /\ Ahead = food)
          => /\ snake' = <<Ahead>> \o snake
             /\ score' = score + 1
             /\ speed' = (IF speed - 5 >= 60 THEN speed - 5 ELSE 60)
             /\ food' \notin Range(snake')]_vars

\* C8 amended: as stated, except that the new food cell is none of the grown
\* snake's segments only when the grown snake leaves a cell free; when it
\* covers all 400 cells the new food cell is (0,0).
C8_EatingTick ==
    [][(IsTick /\ ~Collides /\ Ahead = food)
          => /\ snake' = <<Ahead>> \o snake
             /\ score' = score + 1
             /\ speed' = (IF speed - 5 >= 60 THEN speed - 5 ELSE 60)
             /\ IF Len(snake') < Cells THEN food' \notin Range(snake')
                ELSE food' = Point(0, 0)]_vars

C8_Witness ==
    /\ snake = <<Point(11, 10), Point(10, 10), Point(9, 10), Point(8, 10)>>
    /\ score = 1 /\ speed = 155 /\ ticks = 1

\* C9: resetGame, from whatever state it is triggered in, yields status
\* running, score 0, speed 160, direction right, no pending direction, the
\* starting snake and a food cell off the snake, and leaves best score alone.
C9_Reset ==
    [][IsReset
          => /\ status' = "running" /\ score' = 0 /\ speed' = 160
             /\ direction' = Point(1, 0) /\ pendingDirection' = <<>>
             /\ snake' = <<Point(10, 10), Point(9, 10), Point(8, 10)>>
             /\ food' \notin Range(snake')
             /\ bestScore' = bestScore]_vars

C9_Witness ==
    /\ resets = 1 /\ moved = <<>> /\ status = "running"
    /\ bestScore >= 1 /\ score = 0 /\ snake = initialSnake

\* C10: once status is over no tick and no key event changes the game state;
\* the only step out of over is a reset, and it leads to running (a page load
\* starts a new HomePage and is no step of the game).
C10_OverIsTerminal ==
    [][(status = "over" /\ ~IsReload)
          => \/ UNCHANGED game
             \/ IsReset /\ status' = "running"]_vars

C10_Witness ==
    /\ status = "over" /\ ticks < MaxTicks /\ resets < MaxResets
    /\ pendingDirection = <<>> /\ snake # initialSnake

\* C11: within one page load best score never decreases, and once the page is
\* mounted it equals the maximum of the value persisted at startup and every
\* score held at a game-over since.
C11_BestScoreIsMax ==
    [][/\ ~IsReload => bestScore' >= bestScore
       /\ phase' = "mounted" => bestScore' = maxOver']_vars

C11_Witness ==
    /\ reloads = 1 /\ phase = "mounted" /\ status = "over" /\ moved # <<>>
    /\ bestScore >= 1 /\ score < bestScore

\* the persisted item is a non-negative integer in decimal digits
WellFormed(item) ==
    /\ item # <<>>
    /\ item[1] # <<>>
    /\ \A i \in 1..Len(item[1]) :
          item[1][i] \in {"0", "1", "2", "3", "4", "5", "6", "7", "8", "9"}

\* C12: at startup a persisted value that is absent or no non-negative integer
\* leaves best score at 0 (the load effect sets nothing but 0), and every later
\* game-over sets best score to the number max(best score, score).
C12_MalformedIsAbsent ==
    [][/\ (phase = "load" /\ phase' = "save" /\ ~WellFormed(stored))
            => (queuedBest' = <<>> \/ queuedBest' = <<0>>)
       /\ (IsTick /\ status' = "over")
            => /\ bestScore' >= 0
               /\ bestScore' = (IF bestScore >= score THEN bestScore ELSE score)]_vars

\* handleKeyDown for one event.key
Press(key) ==
    IF key \in ArrowKeys THEN KeyArrow(key)
    ELSE IF key = " " THEN KeySpace \/ KeyOther(key)
    ELSE KeyOther(key)

\* C13: a reset happens only while status is not running, and while status is
\* running a press of the space bar or of any other key that is no arrow
\* changes no game state.
C13_SpaceOnlyWhenIdle ==
    [][/\ IsReset => status # "running"
       /\ \A key \in Keys \ ArrowKeys :
             (status = "running" /\ Press(key)) => UNCHANGED game]_vars

C13_Witness ==
    /\ resets = 1 /\ ticks = 0 /\ reloads = 0 /\ status = "running"
    /\ bestScore = 0 /\ snake = initialSnake

\* C14: no step replaces the persisted best score by a smaller value.
C14_StoredNeverDecreases ==
    [][(stored # <<>> /\ stored' # <<>>)
          => Number(stored'[1]) >= Number(stored[1])]_vars

\* C15: a tick whose next head is the cell of the current tail is a collision:
\* status becomes over and the snake is unchanged.
C15_TailCellCollides ==
    [][(IsTick /\ Ahead = snake[Len(snake)])
          => (status' = "over" /\ snake' = snake)]_vars

C15_Witness ==
    /\ status = "over" /\ moved # <<>>
    /\ nextHead(snake, moved[1]) = snake[Len(snake)]

\* the arrow key of the reverse direction
OppositeKey(key) ==
    CASE key = "ArrowUp" -> "ArrowDown"
      [] key = "ArrowDown" -> "ArrowUp"
      [] key = "ArrowLeft" -> "ArrowRight"
      [] key = "ArrowRight" -> "ArrowLeft"

\* C16: while status is running and a direction p is buffered, a press of the
\* arrow key opposite to p changes nothing: the buffer still holds p.
C16_OppositeOfPendingIgnored ==
    [][\A key \in ArrowKeys :
          (/\ status = "running"
           /\ pendingDirection = <<DIRECTIONS[OppositeKey(key)]>>
           /\ KeyArrow(key))
          => UNCHANGED game]_vars

C16_Witness ==
    /\ status = "running" /\ ticks = 0 /\ inputs = 1
    /\ direction = Point(1, 0) /\ pendingDirection = <<Point(0, 1)>>
    /\ inputs < MaxInputs

\* C17: the buffer is one slot: a request that is accepted while running
\* replaces what the slot held; a tick that finds a buffered direction moves
\* the head by it, whatever was accepted before it; and the slot is empty
\* right after every tick.
C17_SinglePendingSlot ==
    [][/\ \A key \in ArrowKeys :
             (status = "running" /\ KeyArrow(key) /\ pendingDirection' # pendingDirection)
             => pendingDirection' = <<DIRECTIONS[key]>>
       /\ IsTick
             => /\ pendingDirection' = <<>>
                /\ pendingDirection # <<>>
                      => /\ moved' = pendingDirection
                         /\ snake' # snake
                               => snake'[1] = Point(snake[1].x + pendingDirection[1].x,
                                                    snake[1].y + pendingDirection[1].y)]_vars

\* up and then left were accepted between the first tick and the second, and
\* the second tick moved the head left
C17_Witness ==
    /\ ticks = 2 /\ inputs = 2 /\ pendingDirection = <<>>
    /\ moved = <<Point(-1, 0)>> /\ lastConsumed = <<Point(-1, 0)>>

\* C18: while status is ready a press of ArrowLeft, the reverse of the initial
\* direction, is rejected: status stays ready and nothing else changes.
C18_RejectedLeftKeepsReady ==
    [][(status = "ready" /\ KeyArrow("ArrowLeft")) => UNCHANGED game]_vars

\* C19: in every reachable state score = snake length - 3 and
\* speed = max(60, 160 - 5 * score), so score >= 0 and 60 <= speed <= 160.
C19_ScoreAndSpeed ==
    /\ score = Len(snake) - 3
    /\ speed = (IF 160 - 5 * score >= 60 THEN 160 - 5 * score ELSE 60)
    /\ score >= 0
    /\ speed >= 60 /\ speed <= 160

C19_Witness ==
    /\ Len(snake) = Cells /\ score = Cells - 3 /\ speed = 60 /\ ticks = 1

\* a key press or a click on the restart button
InputStep == handleKeyDown \/ ClickRestart

\* C20: if from some point on there is no key event, and the timer keeps
\* firing, every state with status running is followed by one with status over.
C20_EventuallyOver ==
    (<>[][~InputStep]_vars) => ((status = "running") ~> (status = "over"))

\* a game that ran past MaxTicks ticks and ended at the right wall
C20_Witness ==
    /\ status = "over" /\ ticks = MaxTicks /\ pendingDirection = <<>>
    /\ moved = <<Point(1, 0)>> /\ snake[1].x = BOARD_SIZE - 1 /\ snake[1].y # 10

====
